---- MODULE Spec2Model ----
(***************************************************************************)
(* Authorization and data-integrity model of the recipe archive: the       *)
(* tables, row-level security policies and triggers of the schema in       *)
(* src/lib/supabase.ts and migration 002, and the page handlers that read  *)
(* and soft-delete recipes.  Every request is one statement run by the     *)
(* store on behalf of a principal p: NULL for the anonymous key, or the id *)
(* of an auth identity (auth.uid()).                                       *)
(***************************************************************************)
EXTENDS Integers, FiniteSets, Sequences, TLC

\* ------------------------------------------------------------------ bounds
NumUsers == 2
NumRecipes == 1
MaxCount == 2

NULL == 0
UserIds == 1..NumUsers
RecipeIds == 1..NumRecipes
\* an id no insert ever uses: what a caller gets for a recipe that never existed
GhostId == NumRecipes + 1
Principals == {NULL} \cup UserIds
Roles == {"admin", "user", "guest"}

VARIABLES
    authUsers,       \* ids of the identities created by supabase.auth.signUp
    users,           \* table users: id -> [role]
    recipes,         \* table recipes: id -> row
    user_favorites,  \* table user_favorites: set of <<user_id, recipe_id>>
    recipe_reviews,  \* table recipe_reviews: set of [recipe_id, user_id, rating]
    now,             \* NOW()
    tx,              \* the open transaction of each identity (a favorite insert)
    resp,            \* the last request: who sent it, and what it did and returned
    admin_actions,       \* table admin_actions: set of [id, admin_id]
    chat_conversations,  \* table chat_conversations: id -> [user_id, session_id, expires_at]
    collections,         \* table collections: id -> [user_id]
    collection_recipes,  \* table collection_recipes: set of [collection_id, recipe_id, added_by]
    recipe_nutrition,    \* table recipe_nutrition: the recipe_id of its rows
    page                 \* RecipeDetailPage: its state, and its calls of loadRecipe

vars == <<authUsers, users, recipes, user_favorites, recipe_reviews, now, tx, resp,
          admin_actions, chat_conversations, collections, collection_recipes,
          recipe_nutrition, page>>

\* RecipeDetailPage before its first effect: the initial values of useState,
\* no call of loadRecipe yet; user is the identity of the browser's session
NoPage ==
    [params_id |-> NULL, user |-> NULL, recipe |-> NULL, nutrition |-> NULL,
     error |-> "", loading |-> TRUE, loads |-> <<>>]

\* ------------------------------------------------------------- SQL helpers
\* SQL equality: a comparison with NULL is never true
SqlEq(a, b) == a # NULL /\ b # NULL /\ a = b

\* no transaction open
NoTx == [pc |-> "idle", recipe |-> NULL, base |-> NULL, hit |-> FALSE, count |-> NULL, during |-> {}]

Response(op, by, id, error, rows) ==
    [op |-> op, by |-> by, id |-> id, error |-> error, rows |-> rows]

\* the columns a patch names replace those of the row
ApplyPatch(row, patch) ==
    [c \in DOMAIN row |-> IF c \in DOMAIN patch THEN patch[c] ELSE row[c]]

\* a principal that can send requests: the anonymous key or a signed-up identity
CanAct(p) == p = NULL \/ p \in authUsers

\* ------------------------------------------------------- recipes policies
\* EXISTS (SELECT 1 FROM users WHERE users.id = auth.uid() AND users.role = 'admin')
IsAdmin(p) == \E u \in DOMAIN users : SqlEq(u, p) /\ users[u].role = "admin"

PublicRecipesViewable_NoPublic(row) == row.is_deleted = FALSE

PublicRecipesViewable_NoDeleted(row) == row.is_public = TRUE

PublicRecipesViewable(row) == row.is_public = TRUE /\ row.is_deleted = FALSE

UsersViewOwnRecipes_AnySignedIn(p, row) == p # NULL

UsersViewOwnRecipes(p, row) == SqlEq(p, row.user_id)

UsersInsertOwnRecipes_AnySignedIn(p, row) == p # NULL

UsersInsertOwnRecipes(p, row) == SqlEq(p, row.user_id)

UsersUpdateOwnRecipes_AnySignedIn(p, row) == p # NULL

UsersUpdateOwnRecipes(p, row) == SqlEq(p, row.user_id)

UsersDeleteOwnRecipes(p, row) == SqlEq(p, row.user_id)

\* no FOR clause: the policy applies to every command, and its USING
\* expression is also the WITH CHECK of INSERT and UPDATE
AdminsAnythingWithRecipes(p, row) == IsAdmin(p)

\* permissive policies of one command are OR-ed
RecipeSelectUsing(p, row) ==
    \/ PublicRecipesViewable(row)
    \/ UsersViewOwnRecipes(p, row)
    \/ AdminsAnythingWithRecipes(p, row)

RecipeInsertCheck(p, row) ==
    \/ UsersInsertOwnRecipes(p, row)
    \/ AdminsAnythingWithRecipes(p, row)

RecipeUpdateUsing(p, row) ==
    \/ UsersUpdateOwnRecipes(p, row)
    \/ AdminsAnythingWithRecipes(p, row)

\* an UPDATE policy without WITH CHECK checks the new row with its USING
RecipeUpdateCheck(p, row) == RecipeUpdateUsing(p, row)

RecipeDeleteUsing(p, row) ==
    \/ UsersDeleteOwnRecipes(p, row)
    \/ AdminsAnythingWithRecipes(p, row)

\* ------------------------------------------------------------ statements
\* SELECT id FROM recipes, as p
SelectRecipes(p) == {id \in DOMAIN recipes : RecipeSelectUsing(p, recipes[id])}

\* BEFORE UPDATE ON recipes: NEW.updated_at = NOW()
update_updated_at_column(row) == [row EXCEPT !.updated_at = now]

\* UPDATE recipes SET <patch> WHERE id = <id>, as p.  The rows p may not
\* update are skipped without an error; a new row that fails the checks
\* aborts the statement.
UpdateRecipes(p, id, patch) ==
    LET hit == {i \in SelectRecipes(p) : i = id /\ RecipeUpdateUsing(p, recipes[i])}
        new == update_updated_at_column(ApplyPatch(recipes[id], patch))
    IN  IF hit = {}
        THEN [recipes |-> recipes, error |-> "", rows |-> {}]
        ELSE IF ~(RecipeUpdateCheck(p, new) /\ RecipeSelectUsing(p, new))
        THEN [recipes |-> recipes, error |-> "rls", rows |-> {}]
        ELSE IF new.user_id \notin DOMAIN users
        THEN [recipes |-> recipes, error |-> "fk", rows |-> {}]
        ELSE [recipes |-> [recipes EXCEPT ![id] = new], error |-> "", rows |-> {id}]

\* --------------------------------------------------------------- users
\* supabase.auth.signUp, then the profile insert, which names no
\* password_hash: the column is NOT NULL and has no default
SignUpProfile(u) == [id |-> u, role |-> "user", password_hash |-> NULL]

\* INSERT INTO users: the table has no row-level security
UsersInsertError(row) ==
    IF row.password_hash = NULL THEN "not_null"
    ELSE IF row.id \in DOMAIN users THEN "conflict"
    ELSE IF row.role \notin Roles THEN "check"
    ELSE ""

InsertUsers(row) ==
    IF UsersInsertError(row) = "" THEN users @@ (row.id :> [role |-> row.role]) ELSE users

SignUp(u) ==
    /\ u \notin authUsers
    /\ authUsers' = authUsers \cup {u}
    /\ users' = InsertUsers(SignUpProfile(u))
    /\ resp' = Response("signUp", u, u, UsersInsertError(SignUpProfile(u)), {})
    /\ UNCHANGED <<recipes, user_favorites, recipe_reviews, now, tx,
                     admin_actions, chat_conversations, collections, collection_recipes,
                     recipe_nutrition, page>>

\* a direct insert into users, with every NOT NULL column given; the id is
\* that of a signed-up identity, as in signUp
InsertUser(p, u, role) ==
    LET row == [id |-> u, role |-> role, password_hash |-> 1]
    IN  /\ CanAct(p)
        /\ u \in authUsers
        /\ users' = InsertUsers(row)
        /\ resp' = Response("insertUser", p, u, UsersInsertError(row), {})
        /\ UNCHANGED <<authUsers, recipes, user_favorites, recipe_reviews, now, tx,
                         admin_actions, chat_conversations, collections, collection_recipes, recipe_nutrition, page>>

\* a direct UPDATE users SET role = <role> WHERE id = <u>
UpdateUserRole(p, u, role) ==
    /\ CanAct(p)
    /\ u \in DOMAIN users
    /\ users[u].role # role
    /\ users' = [users EXCEPT ![u].role = role]
    /\ resp' = Response("updateUser", p, u, "", {})
    /\ UNCHANGED <<authUsers, recipes, user_favorites, recipe_reviews, now, tx,
                     admin_actions, chat_conversations, collections, collection_recipes, recipe_nutrition, page>>

\* -------------------------------------------------------------- recipes
NewRecipe(owner, public) ==
    [user_id |-> owner, is_public |-> public, is_deleted |-> FALSE,
     favorite_count |-> 0, deleted_at |-> NULL, deleted_by |-> NULL,
     updated_at |-> now]

RecipeInsertError(p, id, row) ==
    IF ~RecipeInsertCheck(p, row) THEN "rls"
    ELSE IF id \in DOMAIN recipes THEN "conflict"
    ELSE IF row.user_id \notin DOMAIN users THEN "fk"
    ELSE ""

\* INSERT INTO recipes, as p
InsertRecipe(p, id, owner, public) ==
    LET row == NewRecipe(owner, public)
        err == RecipeInsertError(p, id, row)
    IN  /\ CanAct(p)
        /\ id \notin DOMAIN recipes
        /\ recipes' = IF err = "" THEN recipes @@ (id :> row) ELSE recipes
        /\ resp' = Response("insertRecipe", p, id, err, IF err = "" THEN {id} ELSE {})
        /\ UNCHANGED <<authUsers, users, user_favorites, recipe_reviews, now, tx,
                         admin_actions, chat_conversations, collections, collection_recipes, recipe_nutrition, page>>

\* a direct UPDATE of one column of a recipe, as p
UpdateRecipe(p, id, patch) ==
    LET r == UpdateRecipes(p, id, patch)
    IN  /\ CanAct(p)
        /\ id \in DOMAIN recipes
        /\ recipes' = r.recipes
        /\ resp' = Response("updateRecipe", p, id, r.error, r.rows)
        /\ UNCHANGED <<authUsers, users, user_favorites, recipe_reviews, now, tx,
                         admin_actions, chat_conversations, collections, collection_recipes, recipe_nutrition, page>>

\* handleDelete: the page's delete button
HandleDeletePatch_NoFlag == [deleted_at |-> now]

HandleDeletePatch_Unpublish == [is_deleted |-> TRUE, deleted_at |-> now, is_public |-> FALSE]

HandleDeletePatch == [is_deleted |-> TRUE, deleted_at |-> now]

handleDelete(p, id) ==
    LET r == UpdateRecipes(p, id, HandleDeletePatch)
    IN  /\ CanAct(p)
        /\ id \in DOMAIN recipes
        /\ recipes' = r.recipes
        /\ resp' = Response("handleDelete", p, id, r.error, r.rows)
        /\ UNCHANGED <<authUsers, users, user_favorites, recipe_reviews, now, tx,
                         admin_actions, chat_conversations, collections, collection_recipes, recipe_nutrition, page>>

\* DELETE FROM recipes WHERE id = <id>, as p.  ON DELETE CASCADE removes the
\* favorites, the reviews, the collection entries and the nutrition row of the
\* recipe with it.
DeleteRecipes(p, id) ==
    LET hit == {i \in SelectRecipes(p) : i = id /\ RecipeDeleteUsing(p, recipes[i])}
    IN  [recipes |-> [i \in DOMAIN recipes \ hit |-> recipes[i]],
         user_favorites |-> {f \in user_favorites : f[2] \notin hit},
         recipe_reviews |-> {r \in recipe_reviews : r.recipe_id \notin hit},
         collection_recipes |-> {c \in collection_recipes : c.recipe_id \notin hit},
         recipe_nutrition |-> recipe_nutrition \ hit,
         error |-> "", rows |-> hit]

\* a direct DELETE of a recipe, as p
DeleteRecipe(p, id) ==
    LET r == DeleteRecipes(p, id)
    IN  /\ CanAct(p)
        /\ id \in DOMAIN recipes
        /\ recipes' = r.recipes
        /\ user_favorites' = r.user_favorites
        /\ recipe_reviews' = r.recipe_reviews
        /\ collection_recipes' = r.collection_recipes
        /\ resp' = Response("deleteRecipe", p, id, r.error, r.rows)
        /\ recipe_nutrition' = r.recipe_nutrition
        /\ UNCHANGED <<authUsers, users, now, tx,
                         admin_actions, chat_conversations, collections, page>>

\* ------------------------------------------------------------ favorites
\* the runs stop a favorite_count that drifts beyond MaxCount either way
CountsInRange(rs) ==
    \A id \in DOMAIN rs : rs[id].favorite_count \in -MaxCount..MaxCount

UsersManageOwnFavorites_AnySignedIn(p, user_id) == p # NULL

\* "Users can manage their own favorites": every command, USING and WITH CHECK
UsersManageOwnFavorites(p, user_id) == SqlEq(p, user_id)

\* the UPDATE of increment_favorite_count, run by the AFTER INSERT trigger
\* on_favorite_added with the rights of the principal whose insert fired it
increment_favorite_count(p, recipe_id) ==
    IF recipe_id \in DOMAIN recipes
    THEN UpdateRecipes(p, recipe_id,
            [favorite_count |-> recipes[recipe_id].favorite_count + 1])
    ELSE [recipes |-> recipes, error |-> "", rows |-> {}]

\* the UPDATE of decrement_favorite_count, run by on_favorite_removed
decrement_favorite_count(p, recipe_id) ==
    IF recipe_id \in DOMAIN recipes
    THEN UpdateRecipes(p, recipe_id,
            [favorite_count |-> recipes[recipe_id].favorite_count - 1])
    ELSE [recipes |-> recipes, error |-> "", rows |-> {}]

FavoriteInsertError(p, user_id, recipe_id) ==
    IF ~UsersManageOwnFavorites(p, user_id) THEN "rls"
    ELSE IF <<user_id, recipe_id>> \in user_favorites THEN "conflict"
    ELSE IF user_id \notin DOMAIN users \/ recipe_id \notin DOMAIN recipes THEN "fk"
    ELSE ""

\* INSERT INTO user_favorites, as p, with its trigger: one transaction
InsertFavorite(p, user_id, recipe_id) ==
    LET err == FavoriteInsertError(p, user_id, recipe_id)
    IN  /\ CanAct(p)
        /\ user_favorites' = IF err = "" THEN user_favorites \cup {<<user_id, recipe_id>>}
                             ELSE user_favorites
        /\ recipes' = IF err = "" THEN increment_favorite_count(p, recipe_id).recipes
                      ELSE recipes
        /\ CountsInRange(recipes')
        /\ resp' = Response("insertFavorite", p, recipe_id, err,
                            IF err = "" THEN {recipe_id} ELSE {})
        /\ UNCHANGED <<authUsers, users, recipe_reviews, now, tx,
                         admin_actions, chat_conversations, collections, collection_recipes, recipe_nutrition, page>>

\* DELETE FROM user_favorites WHERE user_id = <user_id> AND recipe_id =
\* <recipe_id>, as p, with its trigger: one transaction
DeleteFavorite(p, user_id, recipe_id) ==
    LET hit == {f \in user_favorites :
                    f = <<user_id, recipe_id>> /\ UsersManageOwnFavorites(p, f[1])}
    IN  /\ CanAct(p)
        /\ <<user_id, recipe_id>> \in user_favorites
        /\ user_favorites' = user_favorites \ hit
        /\ recipes' = IF hit # {} THEN decrement_favorite_count(p, recipe_id).recipes
                      ELSE recipes
        /\ CountsInRange(recipes')
        /\ resp' = Response("deleteFavorite", p, recipe_id, "",
                            IF hit # {} THEN {recipe_id} ELSE {})
        /\ UNCHANGED <<authUsers, users, recipe_reviews, now, tx,
                         admin_actions, chat_conversations, collections, collection_recipes, recipe_nutrition, page>>

\* ------------------------------------------- favorites, statement by step
\* The same insert as three steps of one READ COMMITTED transaction of
\* identity u: the INSERT, the trigger's UPDATE, the commit.  The UPDATE
\* waits for the row lock of an uncommitted UPDATE of the same recipe and
\* then works on the committed row; what a transaction wrote is seen by the
\* others when it commits.
Open(v) == tx[v].pc \in {"inserted", "updated"}

RowLocked(u, recipe_id) ==
    \E v \in UserIds \ {u} :
        tx[v].pc = "updated" /\ tx[v].hit /\ tx[v].recipe = recipe_id

FavBegin(u, recipe_id) ==
    /\ u \in authUsers
    /\ tx[u].pc = "idle"
    /\ FavoriteInsertError(u, u, recipe_id) = ""
    /\ tx' = [tx EXCEPT ![u] =
                [pc |-> "inserted", recipe |-> recipe_id,
                 base |-> recipes[recipe_id].favorite_count,
                 hit |-> FALSE, count |-> NULL,
                 during |-> {v \in UserIds \ {u} : Open(v) /\ tx[v].recipe = recipe_id}]]
    /\ UNCHANGED <<authUsers, users, recipes, user_favorites, recipe_reviews, now, resp,
                     admin_actions, chat_conversations, collections, collection_recipes, recipe_nutrition, page>>

FavTrigger(u) ==
    LET r == increment_favorite_count(u, tx[u].recipe)
    IN  /\ tx[u].pc = "inserted"
        /\ ~RowLocked(u, tx[u].recipe)
        /\ tx' = [tx EXCEPT ![u].pc = "updated",
                            ![u].hit = (r.rows # {}),
                            ![u].count = IF r.rows # {}
                                         THEN r.recipes[tx[u].recipe].favorite_count
                                         ELSE NULL]
        /\ UNCHANGED <<authUsers, users, recipes, user_favorites, recipe_reviews, now, resp,
                         admin_actions, chat_conversations, collections, collection_recipes, recipe_nutrition, page>>

FavCommit(u) ==
    /\ tx[u].pc = "updated"
    /\ user_favorites' = user_favorites \cup {<<u, tx[u].recipe>>}
    /\ recipes' = IF tx[u].hit
                  THEN [recipes EXCEPT ![tx[u].recipe].favorite_count = tx[u].count,
                                       ![tx[u].recipe].updated_at = now]
                  ELSE recipes
    /\ tx' = [tx EXCEPT ![u].pc = "committed"]
    /\ resp' = Response("insertFavorite", u, tx[u].recipe, "", {tx[u].recipe})
    /\ UNCHANGED <<authUsers, users, recipe_reviews, now,
                     admin_actions, chat_conversations, collections, collection_recipes, recipe_nutrition, page>>

\* -------------------------------------------------------------- reviews
MinRating == 1
MaxRating == 5

\* "Users can manage their own reviews": every command, USING and WITH CHECK
UsersManageOwnReviews(p, user_id) == SqlEq(p, user_id)

ReviewsOf(user_id, recipe_id) ==
    {r \in recipe_reviews : r.user_id = user_id /\ r.recipe_id = recipe_id}

\* the policy's check, CHECK (rating >= 1 AND rating <= 5), UNIQUE(recipe_id,
\* user_id), then the foreign keys
ReviewInsertError_NoUnique(p, row) ==
    IF ~UsersManageOwnReviews(p, row.user_id) THEN "rls"
    ELSE IF ~(row.rating >= MinRating /\ row.rating <= MaxRating) THEN "check"
    ELSE IF row.user_id \notin DOMAIN users \/ row.recipe_id \notin DOMAIN recipes THEN "fk"
    ELSE ""

ReviewInsertError(p, row) ==
    IF ~UsersManageOwnReviews(p, row.user_id) THEN "rls"
    ELSE IF ~(row.rating >= MinRating /\ row.rating <= MaxRating) THEN "check"
    ELSE IF ReviewsOf(row.user_id, row.recipe_id) # {} THEN "conflict"
    ELSE IF row.user_id \notin DOMAIN users \/ row.recipe_id \notin DOMAIN recipes THEN "fk"
    ELSE ""

\* INSERT INTO recipe_reviews, as p
InsertReviews(p, row) ==
    [recipe_reviews |-> IF ReviewInsertError(p, row) = ""
                        THEN recipe_reviews \cup {row} ELSE recipe_reviews,
     error |-> ReviewInsertError(p, row)]

InsertReview(p, user_id, recipe_id, rating) ==
    LET row == [recipe_id |-> recipe_id, user_id |-> user_id, rating |-> rating]
        r == InsertReviews(p, row)
    IN  /\ CanAct(p)
        /\ recipe_reviews' = r.recipe_reviews
        /\ resp' = Response("insertReview", p, recipe_id, r.error,
                            IF r.error = "" THEN {recipe_id} ELSE {})
        /\ UNCHANGED <<authUsers, users, recipes, user_favorites, now, tx,
                         admin_actions, chat_conversations, collections, collection_recipes, recipe_nutrition, page>>

\* ---------------------------------------------------------------- reads
\* getCurrentUser: the profile of the signed-in identity, or null
getCurrentUser(p) == IF p \in authUsers /\ p \in DOMAIN users THEN p ELSE NULL

\* loadRecipe: .eq('id', id).eq('is_deleted', false).single(), then the
\* page's own access check
LoadRecipeResult(p, id) ==
    LET rows == {i \in SelectRecipes(p) : i = id /\ recipes[i].is_deleted = FALSE}
    IN  IF Cardinality(rows) # 1
        THEN [data |-> {}, error |-> "Recipe not found"]
        ELSE IF ~recipes[id].is_public /\ recipes[id].user_id # getCurrentUser(p)
        THEN [data |-> {}, error |-> "You do not have access to this recipe"]
        ELSE [data |-> rows, error |-> ""]

loadRecipe(p, id) ==
    LET r == LoadRecipeResult(p, id)
    IN  /\ CanAct(p)
        /\ resp' = Response("loadRecipe", p, id, r.error, r.data)
        /\ UNCHANGED <<authUsers, users, recipes, user_favorites, recipe_reviews, now, tx,
                         admin_actions, chat_conversations, collections, collection_recipes, recipe_nutrition, page>>

Filters == {"all", "my-recipes"}

\* loadRecipes: the list page's query; currentUser is the page's state, null
\* until loadCurrentUser has answered
LoadRecipesResult(p, filter, currentUser) ==
    {i \in SelectRecipes(p) :
        /\ recipes[i].is_deleted = FALSE
        /\ IF filter = "all" THEN recipes[i].is_public = TRUE
           ELSE IF filter = "my-recipes" /\ currentUser # NULL
           THEN recipes[i].user_id = currentUser
           ELSE TRUE}

loadRecipes(p, filter, currentUser) ==
    /\ CanAct(p)
    /\ currentUser \in {NULL, getCurrentUser(p)}
    /\ resp' = Response("loadRecipes/" \o filter, p, currentUser, "",
                        LoadRecipesResult(p, filter, currentUser))
    /\ UNCHANGED <<authUsers, users, recipes, user_favorites, recipe_reviews, now, tx,
                     admin_actions, chat_conversations, collections, collection_recipes, recipe_nutrition, page>>

\* ------------------------------------------------------- specifications
Init ==
    /\ authUsers = {}
    /\ users = <<>>
    /\ recipes = <<>>
    /\ user_favorites = {}
    /\ recipe_reviews = {}
    /\ now = 1
    /\ tx = [u \in UserIds |-> NoTx]
    /\ resp = Response("none", NULL, NULL, "", {})
    /\ admin_actions = {}
    /\ chat_conversations = <<>>
    /\ collections = <<>>
    /\ collection_recipes = {}
    /\ recipe_nutrition = {}
    /\ page = NoPage

\* the roles a request sets in these runs ('guest' is granted nothing that
\* 'user' is not)
SetRoles == {"admin", "user"}

\* the users requests of every specification: sign-up, and an identity that
\* inserts or updates its own users row
UsersNext ==
    \/ \E u \in UserIds : SignUp(u)
    \/ \E u \in UserIds, role \in SetRoles : InsertUser(u, u, role)
    \/ \E u \in UserIds, role \in SetRoles : UpdateUserRole(u, u, role)

\* the direct updates of these runs set one column; is_deleted is set by
\* handleDelete
VisibilityPatches == [is_public : BOOLEAN]

RecipePatches == VisibilityPatches \cup [user_id : UserIds]

\* Spec: the recipes requests with the pages' reads
Next ==
    \/ UsersNext
    \/ \E p \in Principals, id \in RecipeIds, o \in UserIds, pub \in BOOLEAN : InsertRecipe(p, id, o, pub)
    \/ \E p \in Principals, id \in RecipeIds, patch \in VisibilityPatches : UpdateRecipe(p, id, patch)
    \/ \E p \in Principals, id \in RecipeIds : handleDelete(p, id)
    \/ \E p \in Principals, id \in RecipeIds : loadRecipe(p, id)
    \/ \E p \in Principals, f \in Filters, cu \in Principals : loadRecipes(p, f, cu)

Spec == Init /\ [][Next]_vars

\* SpecWrite: every write of recipes, without the reads
NextWrite ==
    \/ UsersNext
    \/ \E p \in Principals, id \in RecipeIds, o \in UserIds, pub \in BOOLEAN : InsertRecipe(p, id, o, pub)
    \/ \E p \in Principals, id \in RecipeIds, patch \in RecipePatches : UpdateRecipe(p, id, patch)
    \/ \E p \in Principals, id \in RecipeIds : handleDelete(p, id)
    \/ \E p \in Principals, id \in RecipeIds : DeleteRecipe(p, id)

SpecWrite == Init /\ [][NextWrite]_vars

CountPatches == [favorite_count : 0..MaxCount]

\* SpecFav: favorites added and removed, each in one transaction
NextFav ==
    \/ UsersNext
    \/ \E id \in RecipeIds, o \in UserIds, pub \in BOOLEAN : InsertRecipe(o, id, o, pub)
    \/ \E p \in Principals, u \in UserIds, id \in RecipeIds : InsertFavorite(p, u, id)
    \/ \E p \in Principals, u \in UserIds, id \in RecipeIds : DeleteFavorite(p, u, id)

SpecFav == Init /\ [][NextFav]_vars

\* SpecFavUpdate: SpecFav with the direct update of favorite_count
NextFavUpdate ==
    \/ NextFav
    \/ \E p \in Principals, id \in RecipeIds, patch \in CountPatches : UpdateRecipe(p, id, patch)

SpecFavUpdate == Init /\ [][NextFavUpdate]_vars

\* SpecConc: the favorite inserts of different identities, interleaved
NextConc ==
    \/ UsersNext
    \/ \E id \in RecipeIds, o \in UserIds, pub \in BOOLEAN : InsertRecipe(o, id, o, pub)
    \/ \E u \in UserIds, id \in RecipeIds : FavBegin(u, id)
    \/ \E u \in UserIds : FavTrigger(u)
    \/ \E u \in UserIds : FavCommit(u)

SpecConc == Init /\ [][NextConc]_vars

\* the ratings a request may name: the two ends of the range and one beyond it
RatingInputs == {MinRating, MaxRating, MaxRating + 1}

\* SpecReview: reviews of the recipes, each sent by a principal in its own
\* name with the highest rating or one beyond it
NextReview ==
    \/ \E u \in UserIds : SignUp(u)
    \/ \E u \in UserIds : InsertUser(u, u, "user")
    \/ \E id \in RecipeIds, o \in UserIds, pub \in BOOLEAN : InsertRecipe(o, id, o, pub)
    \/ \E p \in Principals, id \in RecipeIds, rating \in {MaxRating, MaxRating + 1} :
        InsertReview(p, p, id, rating)

SpecReview == Init /\ [][NextReview]_vars

\* ---------------------------------------------------------------- claims
IsOwner(p, id) == SqlEq(p, recipes[id].user_id)

OwnerOrAdmin(p, id) == IsOwner(p, id) \/ IsAdmin(p)

PublicAndLive(id) == recipes[id].is_public = TRUE /\ recipes[id].is_deleted = FALSE

ReadOps == {"loadRecipe", "loadRecipes/all", "loadRecipes/my-recipes"}

NotFound == [data |-> {}, error |-> "Recipe not found"]

\* C2: every recipe a read returns to a principal that is neither its owner
\* nor an admin (the anonymous principal included) is public and not
\* soft-deleted: for the rows the policies let through, for loadRecipe, for
\* loadRecipes under every filter, and for the read the last request made.
C2_StrangersSeePublicLive ==
    /\ \A p \in Principals, id \in DOMAIN recipes :
        (/\ ~OwnerOrAdmin(p, id)
         /\ \/ id \in SelectRecipes(p)
            \/ id \in LoadRecipeResult(p, id).data
            \/ \E f \in Filters, cu \in Principals : id \in LoadRecipesResult(p, f, cu))
        => PublicAndLive(id)
    /\ resp.op \in ReadOps =>
        \A id \in resp.rows : ~OwnerOrAdmin(resp.by, id) => PublicAndLive(id)

C2_Witness ==
    /\ resp.op \in ReadOps
    /\ resp.by # NULL
    /\ \E id \in resp.rows : ~OwnerOrAdmin(resp.by, id)

\* C3: the anonymous principal's read of a private recipe is denied, and what
\* it gets (data and error) is what it gets for an id that does not exist.
C3_PrivateLooksAbsent ==
    \A id \in DOMAIN recipes :
        recipes[id].is_public = FALSE =>
            /\ id \notin SelectRecipes(NULL)
            /\ LoadRecipeResult(NULL, id).data = {}
            /\ LoadRecipeResult(NULL, id) = LoadRecipeResult(NULL, GhostId)
            /\ \A ghost \in RecipeIds \ DOMAIN recipes :
                LoadRecipeResult(NULL, id) = LoadRecipeResult(NULL, ghost)

C3_Witness ==
    /\ resp.op = "loadRecipe"
    /\ resp.by = NULL
    /\ resp.id \in DOMAIN recipes
    /\ recipes[resp.id].is_public = FALSE
    /\ recipes[resp.id].is_deleted = FALSE
    /\ resp.error = "Recipe not found"
    /\ resp.rows = {}

\* C4: the anonymous read of a public recipe that is not soft-deleted
\* returns the row; after handleDelete has soft-deleted it the row is still
\* in the table, and as long as it is flagged every anonymous read of it is
\* answered as for a recipe that does not exist.
C4_SoftDeletedLooksAbsent ==
    /\ \A id \in DOMAIN recipes :
        /\ PublicAndLive(id) =>
            /\ id \in SelectRecipes(NULL)
            /\ LoadRecipeResult(NULL, id) = [data |-> {id}, error |-> ""]
        /\ recipes[id].is_deleted = TRUE =>
            /\ id \notin SelectRecipes(NULL)
            /\ LoadRecipeResult(NULL, id) = NotFound
            /\ LoadRecipeResult(NULL, id) = LoadRecipeResult(NULL, GhostId)
    /\ (resp.op = "handleDelete" /\ resp.rows # {}) =>
        /\ resp.id \in DOMAIN recipes
        /\ recipes[resp.id].is_deleted = TRUE
        /\ LoadRecipeResult(NULL, resp.id) = NotFound

C4_Witness ==
    /\ resp.op = "handleDelete"
    /\ resp.rows # {}
    /\ resp.id \in DOMAIN recipes
    /\ recipes[resp.id].is_public = TRUE
    /\ recipes[resp.id].is_deleted = TRUE
    /\ LoadRecipeResult(NULL, resp.id) = NotFound

\* the patches that leave the recipe with an owner that exists
OwnedPatches == {patch \in RecipePatches :
                    "user_id" \in DOMAIN patch => patch.user_id \in DOMAIN users}

KeepsOwner(id, patch) ==
    "user_id" \in DOMAIN patch => patch.user_id = recipes[id].user_id

\* C5 (as first stated): an update or a delete of recipe R by principal P is
\* allowed if and only if P is R's owner or an admin.
C5_Original ==
    \A p \in Principals, id \in DOMAIN recipes :
        /\ \A patch \in OwnedPatches :
            UpdateRecipes(p, id, patch).rows = {id} <=> OwnerOrAdmin(p, id)
        /\ DeleteRecipes(p, id).rows = {id} <=> OwnerOrAdmin(p, id)

\* C5 (amended): a delete, the soft delete of handleDelete, and an update
\* that leaves the owner as it is are allowed if and only if P is R's owner
\* or an admin; no update at all is allowed to anyone else; an owner who is
\* not an admin is denied the update that names another owner; and a denied
\* update or delete leaves every recipe as it was.
C5_OwnerOrAdminWrites ==
    \A p \in Principals, id \in DOMAIN recipes :
        /\ \A patch \in OwnedPatches \cup {HandleDeletePatch} :
            LET r == UpdateRecipes(p, id, patch)
            IN  /\ r.rows = {id} => OwnerOrAdmin(p, id)
                /\ KeepsOwner(id, patch) => (r.rows = {id} <=> OwnerOrAdmin(p, id))
                /\ (~KeepsOwner(id, patch) /\ ~IsAdmin(p)) => r.rows = {}
                /\ r.rows = {} => r.recipes = recipes
        /\ LET d == DeleteRecipes(p, id)
           IN  /\ d.rows = {id} <=> OwnerOrAdmin(p, id)
               /\ d.rows = {} => d.recipes = recipes
        /\ (resp.op \in {"updateRecipe", "handleDelete"} /\ resp.rows # {})
            => \A i \in resp.rows : OwnerOrAdmin(resp.by, i)

C5_Witness ==
    /\ resp.op \in {"updateRecipe", "handleDelete", "deleteRecipe"}
    /\ resp.rows = {}
    /\ resp.by \in DOMAIN users
    /\ resp.id \in DOMAIN recipes
    /\ ~OwnerOrAdmin(resp.by, resp.id)

\* C6 (as first stated): a recipe is created only with the acting principal
\* as its owner, whatever the principal's role.
C6_Original ==
    (resp.op = "insertRecipe" /\ resp.error = "") =>
        recipes[resp.id].user_id = resp.by

\* C6 (amended): a recipe is created only with the acting principal as its
\* owner, unless the acting principal is an admin, who may create a recipe
\* owned by any user.
C6_CreatorOwnsUnlessAdmin ==
    /\ \A p \in Principals, id \in RecipeIds \ DOMAIN recipes, o \in UserIds, pub \in BOOLEAN :
        /\ RecipeInsertError(p, id, NewRecipe(o, pub)) = "" => (SqlEq(p, o) \/ IsAdmin(p))
        /\ (IsAdmin(p) /\ o \in DOMAIN users) => RecipeInsertError(p, id, NewRecipe(o, pub)) = ""
    /\ (resp.op = "insertRecipe" /\ resp.error = "") =>
        OwnerOrAdmin(resp.by, resp.id)

C6_Witness ==
    /\ resp.op = "insertRecipe"
    /\ resp.error = "rls"
    /\ resp.by \in DOMAIN users
    /\ resp.id \notin DOMAIN recipes

\* C7: a read of recipe R by its owner or by an admin returns R, whether or
\* not R is public and whether or not it is soft-deleted.
C7_OwnerAndAdminRead ==
    \A p \in Principals, id \in DOMAIN recipes :
        OwnerOrAdmin(p, id) => LoadRecipeResult(p, id) = [data |-> {id}, error |-> ""]

Favorites(id) == {f \in user_favorites : f[2] = id}

\* C1: after any sequence of favorite creates and deletes, by owners of the
\* recipe or not, a recipe's favorite_count is the number of user_favorites
\* rows that reference it, and is not negative.
C1_CountMatchesFavorites ==
    \A id \in DOMAIN recipes :
        /\ recipes[id].favorite_count = Cardinality(Favorites(id))
        /\ recipes[id].favorite_count >= 0

Max(a, b) == IF a >= b THEN a ELSE b

\* C9: the deletion of a favorite leaves the recipe's favorite_count at
\* max(old - 1, 0), whatever the stored value was, and never negative.
C9_DecrementFloorsAtZero ==
    [][\A id \in DOMAIN recipes :
        (/\ resp'.op = "deleteFavorite"
         /\ resp'.id = id
         /\ resp'.rows # {})
        => /\ recipes'[id].favorite_count = Max(recipes[id].favorite_count - 1, 0)
           /\ recipes'[id].favorite_count >= 0]_vars

\* C8: two favorite creates by two different users on the same recipe, in
\* overlapping transactions, leave the recipe's favorite_count 2 above what
\* it was when the first of them began.
C8_TwoConcurrentFavorites ==
    \A u \in UserIds, v \in UserIds :
        (/\ u # v
         /\ tx[u].pc = "committed"
         /\ tx[v].pc = "committed"
         /\ tx[u].recipe = tx[v].recipe
         /\ u \in tx[v].during
         /\ \A w \in UserIds \ {u, v} : tx[w].recipe # tx[u].recipe)
        => recipes[tx[u].recipe].favorite_count = tx[u].base + 2

\* C10: the create of a second review for a (user, recipe) pair that has one
\* fails, with a uniqueness conflict when the author sends a valid row, and
\* leaves recipe_reviews as it was, with exactly one review for the pair.
C10_SecondReviewConflicts ==
    /\ \A u \in UserIds, id \in RecipeIds :
        ReviewsOf(u, id) # {} =>
            /\ Cardinality(ReviewsOf(u, id)) = 1
            /\ \A p \in Principals, rating \in RatingInputs :
                LET row == [recipe_id |-> id, user_id |-> u, rating |-> rating]
                    r == InsertReviews(p, row)
                IN  /\ r.error # ""
                    /\ r.recipe_reviews = recipe_reviews
                    /\ (p = u /\ rating \in MinRating..MaxRating) => r.error = "conflict"
    /\ (resp.op = "insertReview" /\ resp.error = "conflict") =>
        Cardinality(ReviewsOf(resp.by, resp.id)) = 1

C10_Witness ==
    /\ resp.op = "insertReview"
    /\ resp.error = "conflict"
    /\ \E r \in ReviewsOf(resp.by, resp.id) : r.rating = MaxRating

\* =================================================== the users table, any sender
\* users has no row-level security (it is not among the tables of ENABLE ROW
\* LEVEL SECURITY): every sender, the anonymous one too, inserts and updates
\* any row
NextUsers ==
    \/ \E u \in UserIds : SignUp(u)
    \/ \E p \in Principals, u \in UserIds, role \in Roles : InsertUser(p, u, role)
    \/ \E p \in Principals, u \in UserIds, role \in Roles : UpdateUserRole(p, u, role)

SpecUsers == Init /\ [][NextUsers]_vars

\* C11: a user's role is the one assigned at sign-up ('user') and changes only
\* by an update that an admin sends: a step that changes the role of a users
\* row, or creates a users row with another role than 'user', is a request of
\* a principal whose role was admin before the step.
C11_RoleChangesOnlyByAdmin ==
    [][\A u \in UserIds :
          /\ (u \in DOMAIN users /\ u \in DOMAIN users' /\ users'[u].role # users[u].role)
                => IsAdmin(resp'.by)
          /\ (u \notin DOMAIN users /\ u \in DOMAIN users' /\ users'[u].role # "user")
                => IsAdmin(resp'.by)]_vars

\* C20: after a signUp call, whether it returned or threw, the auth identity
\* the call created has a users row with its id and the role 'user'.
C20_SignUpLeavesProfile ==
    (resp.op = "signUp" /\ resp.by \in authUsers)
        => (resp.by \in DOMAIN users /\ users[resp.by].role = "user")

\* =========================================================== admin_actions
\* the ids a request gives an admin_actions row
MaxActions == 2
ActionIds == 1..MaxActions

\* "Only admins can view admin actions": SELECT, USING
OnlyAdminsViewAdminActions(p) == IsAdmin(p)

OnlyAdminsLogActions_AnySignedIn(p) == p # NULL

\* "Only admins can log actions": INSERT, WITH CHECK
OnlyAdminsLogActions(p) == IsAdmin(p)

AdminActionSelectUsing(p, row) == OnlyAdminsViewAdminActions(p)
AdminActionInsertCheck(p, row) == OnlyAdminsLogActions(p)
\* row-level security is enabled and no policy names UPDATE or DELETE: no row
\* passes
AdminActionUpdateUsing(p, row) == FALSE
AdminActionDeleteUsing(p, row) == FALSE

\* SELECT * FROM admin_actions, as p
SelectAdminActions(p) == {a \in admin_actions : AdminActionSelectUsing(p, a)}

AdminActionInsertError(p, row) ==
    IF ~AdminActionInsertCheck(p, row) THEN "rls"
    ELSE IF row.admin_id = NULL THEN "not_null"
    ELSE IF \E a \in admin_actions : a.id = row.id THEN "conflict"
    ELSE IF row.admin_id \notin DOMAIN users THEN "fk"
    ELSE ""

\* INSERT INTO admin_actions, as p
InsertAdminAction(p, id, admin_id) ==
    LET row == [id |-> id, admin_id |-> admin_id]
        err == AdminActionInsertError(p, row)
    IN  /\ CanAct(p)
        /\ admin_actions' = IF err = "" THEN admin_actions \cup {row} ELSE admin_actions
        /\ resp' = Response("insertAdminAction", p, id, err, IF err = "" THEN {id} ELSE {})
        /\ UNCHANGED <<authUsers, users, recipes, user_favorites, recipe_reviews, now, tx,
                         chat_conversations, collections, collection_recipes, recipe_nutrition, page>>

\* UPDATE admin_actions SET admin_id = <admin_id> WHERE id = <id>, as p
UpdateAdminAction(p, id, admin_id) ==
    LET hit == {a \in SelectAdminActions(p) : a.id = id /\ AdminActionUpdateUsing(p, a)}
    IN  /\ CanAct(p)
        /\ \E a \in admin_actions : a.id = id
        /\ admin_id \in DOMAIN users
        /\ admin_actions' = (admin_actions \ hit)
                                \cup {[a EXCEPT !.admin_id = admin_id] : a \in hit}
        /\ resp' = Response("updateAdminAction", p, id, "", {a.id : a \in hit})
        /\ UNCHANGED <<authUsers, users, recipes, user_favorites, recipe_reviews, now, tx,
                         chat_conversations, collections, collection_recipes, recipe_nutrition, page>>

\* DELETE FROM admin_actions WHERE id = <id>, as p
DeleteAdminAction(p, id) ==
    LET hit == {a \in SelectAdminActions(p) : a.id = id /\ AdminActionDeleteUsing(p, a)}
    IN  /\ CanAct(p)
        /\ \E a \in admin_actions : a.id = id
        /\ admin_actions' = admin_actions \ hit
        /\ resp' = Response("deleteAdminAction", p, id, "", {a.id : a \in hit})
        /\ UNCHANGED <<authUsers, users, recipes, user_favorites, recipe_reviews, now, tx,
                         chat_conversations, collections, collection_recipes, recipe_nutrition, page>>

\* a read of the log, as p
selectAdminActions(p) ==
    /\ CanAct(p)
    /\ resp' = Response("selectAdminActions", p, NULL, "", {a.id : a \in SelectAdminActions(p)})
    /\ UNCHANGED <<authUsers, users, recipes, user_favorites, recipe_reviews, now, tx,
                     admin_actions, chat_conversations, collections, collection_recipes, recipe_nutrition, page>>

\* ============================================================= collections
NumCollections == 1
CollectionIds == 1..NumCollections

\* "Users can manage their own collections": every command, USING and WITH
\* CHECK
UsersManageOwnCollections(p, row) == SqlEq(p, row.user_id)

CollectionInsertError(p, id, row) ==
    IF ~UsersManageOwnCollections(p, row) THEN "rls"
    ELSE IF id \in DOMAIN collections THEN "conflict"
    ELSE IF row.user_id \notin DOMAIN users THEN "fk"
    ELSE ""

\* INSERT INTO collections, as p
InsertCollection(p, id, owner) ==
    LET row == [user_id |-> owner]
        err == CollectionInsertError(p, id, row)
    IN  /\ CanAct(p)
        /\ collections' = IF err = "" THEN collections @@ (id :> row) ELSE collections
        /\ resp' = Response("insertCollection", p, id, err, IF err = "" THEN {id} ELSE {})
        /\ UNCHANGED <<authUsers, users, recipes, user_favorites, recipe_reviews, now, tx,
                         admin_actions, chat_conversations, collection_recipes, recipe_nutrition, page>>

\* collection_recipes has no row-level security
CollectionRecipeInsertError(row) ==
    IF \E c \in collection_recipes :
            c.collection_id = row.collection_id /\ c.recipe_id = row.recipe_id
    THEN "conflict"
    ELSE IF \/ row.collection_id \notin DOMAIN collections
            \/ row.recipe_id \notin DOMAIN recipes
            \/ (row.added_by # NULL /\ row.added_by \notin DOMAIN users)
    THEN "fk"
    ELSE ""

\* INSERT INTO collection_recipes, as p
InsertCollectionRecipe(p, collection_id, recipe_id, added_by) ==
    LET row == [collection_id |-> collection_id, recipe_id |-> recipe_id,
                added_by |-> added_by]
        err == CollectionRecipeInsertError(row)
    IN  /\ CanAct(p)
        /\ collection_recipes' = IF err = "" THEN collection_recipes \cup {row}
                                 ELSE collection_recipes
        /\ resp' = Response("insertCollectionRecipe", p, recipe_id, err,
                            IF err = "" THEN {recipe_id} ELSE {})
        /\ UNCHANGED <<authUsers, users, recipes, user_favorites, recipe_reviews, now, tx,
                         admin_actions, chat_conversations, collections, recipe_nutrition, page>>

\* ======================================================== deleting a user
\* DELETE FROM users WHERE id = <u>, as p (users has no row-level security).
\* The ON DELETE CASCADE references remove the user's recipes, favorites,
\* collections, reviews and conversations, and with the recipes and the
\* collections the rows that reference those.  recipes.deleted_by,
\* collection_recipes.added_by and admin_actions.admin_id reference users(id)
\* with no ON DELETE action: a row left with such a reference aborts the
\* statement.  on_favorite_removed fires for the favorites the cascade
\* removes, with the rights of p.
DeleteUsers(p, u) ==
    LET goneRecipes == {id \in DOMAIN recipes : recipes[id].user_id = u}
        goneCollections == {c \in DOMAIN collections : collections[c].user_id = u}
        keptRecipes == DOMAIN recipes \ goneRecipes
        keptChats == {c \in DOMAIN chat_conversations : chat_conversations[c].user_id # u}
        links == {c \in collection_recipes :
                    c.collection_id \notin goneCollections /\ c.recipe_id \notin goneRecipes}
        blocked == \/ \E id \in keptRecipes : recipes[id].deleted_by = u
                   \/ \E c \in links : c.added_by = u
                   \/ \E a \in admin_actions : a.admin_id = u
    IN  IF blocked
        THEN [users |-> users, recipes |-> recipes, user_favorites |-> user_favorites,
              recipe_reviews |-> recipe_reviews, collections |-> collections,
              collection_recipes |-> collection_recipes,
              chat_conversations |-> chat_conversations,
              recipe_nutrition |-> recipe_nutrition, error |-> "fk", rows |-> {}]
        ELSE [users |-> [i \in DOMAIN users \ {u} |-> users[i]],
              recipes |-> [id \in keptRecipes |->
                             IF <<u, id>> \in user_favorites /\ p # u
                             THEN decrement_favorite_count(p, id).recipes[id]
                             ELSE recipes[id]],
              user_favorites |-> {f \in user_favorites : f[1] # u /\ f[2] \notin goneRecipes},
              recipe_reviews |-> {r \in recipe_reviews :
                                    r.user_id # u /\ r.recipe_id \notin goneRecipes},
              collections |-> [c \in DOMAIN collections \ goneCollections |-> collections[c]],
              collection_recipes |-> links,
              chat_conversations |-> [c \in keptChats |-> chat_conversations[c]],
              recipe_nutrition |-> recipe_nutrition \ goneRecipes,
              error |-> "", rows |-> {u}]

\* a hard delete of a user, as p
DeleteUser(p, u) ==
    LET r == DeleteUsers(p, u)
    IN  /\ CanAct(p)
        /\ u \in DOMAIN users
        /\ users' = r.users
        /\ recipes' = r.recipes
        /\ CountsInRange(recipes')
        /\ user_favorites' = r.user_favorites
        /\ recipe_reviews' = r.recipe_reviews
        /\ collections' = r.collections
        /\ collection_recipes' = r.collection_recipes
        /\ chat_conversations' = r.chat_conversations
        /\ resp' = Response("deleteUser", p, u, r.error, r.rows)
        /\ recipe_nutrition' = r.recipe_nutrition
        /\ UNCHANGED <<authUsers, now, tx, admin_actions, page>>

\* ------------------------------------------- the requests on admin_actions
NextAdmin ==
    \/ UsersNext
    \/ \E p \in Principals, id \in ActionIds, admin_id \in UserIds :
            InsertAdminAction(p, id, admin_id)
    \/ \E p \in Principals, id \in ActionIds, admin_id \in UserIds :
            UpdateAdminAction(p, id, admin_id)
    \/ \E p \in Principals, id \in ActionIds : DeleteAdminAction(p, id)
    \/ \E p \in Principals : selectAdminActions(p)
    \/ \E p \in Principals, u \in UserIds : DeleteUser(p, u)

SpecAdmin == Init /\ [][NextAdmin]_vars

\* C12: the admin_actions log is admin-only and append-only: a principal
\* reads the records, and creates one, exactly when its role is admin, and
\* no request of any principal (an update, a delete, the hard delete of a
\* user) changes or removes an existing record.
C12_AdminOnlyAppendOnly ==
    /\ [](/\ \A p \in Principals :
                /\ SelectAdminActions(p) = IF IsAdmin(p) THEN admin_actions ELSE {}
                /\ \A id \in ActionIds, admin_id \in DOMAIN users :
                      (\A a \in admin_actions : a.id # id)
                        => (AdminActionInsertError(p, [id |-> id, admin_id |-> admin_id]) = ""
                                <=> IsAdmin(p))
          /\ resp.op = "insertAdminAction" /\ resp.rows # {} => IsAdmin(resp.by)
          /\ resp.op = "selectAdminActions" /\ resp.rows # {} => IsAdmin(resp.by)
          /\ resp.op \in {"updateAdminAction", "deleteAdminAction"} => resp.rows = {})
    /\ [][admin_actions \subseteq admin_actions']_vars

\* an admin asked for the delete of a record, and the record is still there
C12_Witness ==
    /\ resp.op = "deleteAdminAction"
    /\ IsAdmin(resp.by)
    /\ \E a \in admin_actions : a.id = resp.id

\* ====================================================== chat_conversations
NumChats == 2
ChatIds == 1..NumChats
\* the clock of the runs stops at MaxTime
MaxTime == 3
\* expires_at DEFAULT (NOW() + INTERVAL '24 hours'): a day is one step of the
\* clock
GuestChatTtl == 1

\* the role of the backend and of the scheduler: it owns the tables, and
\* row-level security does not apply to it
ServiceRole == NumUsers + 1

\* row-level security is enabled on chat_conversations and no policy names
\* the table: no row passes for a principal of the public client
ChatConversationUsing(p, row) == p = ServiceRole

Tick ==
    /\ now < MaxTime
    /\ now' = now + 1
    /\ resp' = Response("tick", NULL, NULL, "", {})
    /\ UNCHANGED <<authUsers, users, recipes, user_favorites, recipe_reviews, tx,
                     admin_actions, chat_conversations, collections, collection_recipes, recipe_nutrition, page>>

ChatConversationInsertError(p, id, row) ==
    IF ~ChatConversationUsing(p, row) THEN "rls"
    ELSE IF id \in DOMAIN chat_conversations THEN "conflict"
    ELSE IF row.user_id # NULL /\ row.user_id \notin DOMAIN users THEN "fk"
    ELSE ""

\* INSERT INTO chat_conversations (id, user_id, session_id), as p: user_id
\* and session_id are nullable and no constraint relates them; expires_at
\* takes its default
InsertConversation(p, id, user_id, session_id) ==
    LET row == [user_id |-> user_id, session_id |-> session_id,
                expires_at |-> now + GuestChatTtl]
        err == ChatConversationInsertError(p, id, row)
    IN  /\ chat_conversations' = IF err = "" THEN chat_conversations @@ (id :> row)
                                 ELSE chat_conversations
        /\ resp' = Response("insertConversation", p, id, err, IF err = "" THEN {id} ELSE {})
        /\ UNCHANGED <<authUsers, users, recipes, user_favorites, recipe_reviews, now, tx,
                         admin_actions, collections, collection_recipes, recipe_nutrition, page>>

ExpiredGuestChats_AllGuests(chats) ==
    {c \in DOMAIN chats : chats[c].user_id = NULL}

\* WHERE user_id IS NULL AND expires_at < NOW()
ExpiredGuestChats(chats) ==
    {c \in DOMAIN chats : chats[c].user_id = NULL /\ chats[c].expires_at < now}

\* DELETE FROM chat_conversations WHERE user_id IS NULL AND expires_at <
\* NOW(), with the rights of the caller p of the function
DeleteExpiredGuestChats(p, chats) ==
    LET hit == {c \in ExpiredGuestChats(chats) : ChatConversationUsing(p, chats[c])}
    IN  [c \in DOMAIN chats \ hit |-> chats[c]]

delete_expired_guest_chats(p) ==
    /\ chat_conversations' = DeleteExpiredGuestChats(p, chat_conversations)
    /\ resp' = Response("delete_expired_guest_chats", p, NULL, "",
                        DOMAIN chat_conversations \ DOMAIN chat_conversations')
    /\ UNCHANGED <<authUsers, users, recipes, user_favorites, recipe_reviews, now, tx,
                     admin_actions, collections, collection_recipes, recipe_nutrition, page>>

\* the store once every identity has signed up and has its users row, with
\* the role 'user'
InitUsers ==
    /\ authUsers = UserIds
    /\ users = [u \in UserIds |-> [role |-> "user"]]
    /\ recipes = <<>>
    /\ user_favorites = {}
    /\ recipe_reviews = {}
    /\ now = 1
    /\ tx = [u \in UserIds |-> NoTx]
    /\ resp = Response("none", NULL, NULL, "", {})
    /\ admin_actions = {}
    /\ chat_conversations = <<>>
    /\ collections = <<>>
    /\ collection_recipes = {}
    /\ recipe_nutrition = {}
    /\ page = NoPage

\* the callers of the chat requests: the backend, and the anonymous client
ChatCallers == {ServiceRole, NULL}

NextChat ==
    \/ Tick
    \/ \E p \in ChatCallers, id \in ChatIds, user_id \in Principals :
            \E session_id \in {NULL, id} : InsertConversation(p, id, user_id, session_id)
    \/ \E p \in ChatCallers : delete_expired_guest_chats(p)

SpecChat == InitUsers /\ [][NextChat]_vars

\* C13: delete_expired_guest_chats is idempotent and removes only expired
\* guest conversations: a second call right after a first one, by the same
\* caller and with the clock unchanged, leaves the store as the first call
\* left it; and a call removes only rows whose user_id is NULL and whose
\* expires_at is before NOW(), and changes no row it keeps.
C13_SweepIdempotent ==
    /\ [](\A p \in ChatCallers :
            LET once == DeleteExpiredGuestChats(p, chat_conversations)
            IN  DeleteExpiredGuestChats(p, once) = once)
    /\ [][/\ (/\ resp.op = "delete_expired_guest_chats"
              /\ resp'.op = "delete_expired_guest_chats"
              /\ resp'.by = resp.by)
                => chat_conversations' = chat_conversations
          /\ resp'.op = "delete_expired_guest_chats"
                => /\ DOMAIN chat_conversations' \subseteq DOMAIN chat_conversations
                   /\ \A c \in DOMAIN chat_conversations' :
                         chat_conversations'[c] = chat_conversations[c]
                   /\ \A c \in DOMAIN chat_conversations \ DOMAIN chat_conversations' :
                         /\ chat_conversations[c].user_id = NULL
                         /\ chat_conversations[c].expires_at < now
                   /\ UNCHANGED <<users, recipes, user_favorites, recipe_reviews,
                                  collections, collection_recipes, admin_actions>>]_vars

\* a call removed an expired guest conversation and kept another conversation
C13_Witness ==
    /\ resp.op = "delete_expired_guest_chats"
    /\ resp.rows # {}
    /\ chat_conversations # <<>>

\* C16: in every reachable state each chat conversation has exactly one of
\* user_id and session_id set.
C16_UserXorSession ==
    \A c \in DOMAIN chat_conversations :
        (chat_conversations[c].user_id = NULL) # (chat_conversations[c].session_id = NULL)

\* ============================================== soft delete of a used recipe
\* A store in use: every identity has its users row and at most one of them
\* is an admin; every recipe exists, with any owner and visibility, and has a
\* favorite of every user but its owner (made while those users had the role
\* 'user', so that favorite_count is 0), a review of every user, and an entry
\* in every collection, added by any one user, and its nutrition row.
InitInUse ==
    /\ authUsers = UserIds
    /\ \E admins \in {{}} \cup {{u} : u \in UserIds} :
            users = [u \in UserIds |-> [role |-> IF u \in admins THEN "admin" ELSE "user"]]
    /\ now = 1
    /\ recipes \in [RecipeIds -> {NewRecipe(o, pub) : o \in UserIds, pub \in BOOLEAN}]
    /\ user_favorites = {<<u, id>> \in UserIds \X RecipeIds : u # recipes[id].user_id}
    /\ recipe_reviews = {[recipe_id |-> id, user_id |-> u, rating |-> MaxRating] :
                            id \in RecipeIds, u \in UserIds}
    /\ \E o \in UserIds, a \in UserIds :
            /\ collections = [c \in CollectionIds |-> [user_id |-> o]]
            /\ collection_recipes = {[collection_id |-> c, recipe_id |-> id, added_by |-> a] :
                                        c \in CollectionIds, id \in RecipeIds}
    /\ tx = [u \in UserIds |-> NoTx]
    /\ resp = Response("none", NULL, NULL, "", {})
    /\ admin_actions = {}
    /\ chat_conversations = <<>>
    /\ recipe_nutrition = RecipeIds
    /\ page = NoPage

NextSoftDelete ==
    \/ Tick
    \/ \E p \in Principals, id \in RecipeIds : handleDelete(p, id)

SpecSoftDelete == InitInUse /\ [][NextSoftDelete]_vars

\* the rows that reference a recipe, and the other recipes, are as they were
SoftDeleteKeepsTheRest(id) ==
    /\ DOMAIN recipes' = DOMAIN recipes
    /\ \A i \in DOMAIN recipes \ {id} : recipes'[i] = recipes[i]
    /\ UNCHANGED <<user_favorites, recipe_reviews, collections, collection_recipes>>

\* C14 as stated: a soft delete changes only is_deleted, deleted_at and
\* deleted_by of the recipe; every other field of it, and the reviews,
\* favorites and collection entries that reference it, are unchanged.
C14_Original ==
    [][(resp'.op = "handleDelete" /\ resp'.rows # {}) =>
          /\ SoftDeleteKeepsTheRest(resp'.id)
          /\ \A f \in DOMAIN recipes[resp'.id] \ {"is_deleted", "deleted_at", "deleted_by"} :
                recipes'[resp'.id][f] = recipes[resp'.id][f]]_vars

\* C14, amended: a soft delete marks the recipe (is_deleted, deleted_at) and
\* the update trigger stamps its updated_at; it changes no field of the
\* recipe other than is_deleted, deleted_at, deleted_by and updated_at, and
\* the reviews, favorites and collection entries that reference the recipe
\* are unchanged and none is removed.
C14_SoftDeleteFrame ==
    [][(resp'.op = "handleDelete" /\ resp'.rows # {}) =>
          /\ SoftDeleteKeepsTheRest(resp'.id)
          /\ recipes'[resp'.id].is_deleted
          /\ recipes'[resp'.id].deleted_at = now
          /\ recipes'[resp'.id].updated_at = now
          /\ \A f \in DOMAIN recipes[resp'.id]
                    \ {"is_deleted", "deleted_at", "deleted_by", "updated_at"} :
                recipes'[resp'.id][f] = recipes[resp'.id][f]]_vars

\* a recipe with a favorite, a review and a collection entry was soft-deleted
\* after the clock had moved on from its last update
C14_Witness ==
    /\ resp.op = "handleDelete"
    /\ resp.rows # {}
    /\ recipes[resp.id].is_deleted
    /\ recipes[resp.id].updated_at > 1
    /\ \E f \in user_favorites : f[2] = resp.id
    /\ \E r \in recipe_reviews : r.recipe_id = resp.id
    /\ \E c \in collection_recipes : c.recipe_id = resp.id

\* ------------------------------------------- the hard delete of a user
NextDeleteUser ==
    \/ \E p \in Principals, id \in RecipeIds : handleDelete(p, id)
    \/ \E u \in UserIds, id \in ActionIds : InsertAdminAction(u, id, u)
    \/ \E p \in Principals, u \in UserIds : DeleteUser(p, u)

SpecDeleteUser == InitInUse /\ [][NextDeleteUser]_vars

\* C15: the hard delete of a user succeeds in every reachable state, and
\* removes the user with every recipe, favorite, collection and review the
\* user owns.
C15_HardDeleteCascades ==
    resp.op = "deleteUser" =>
        /\ resp.error = ""
        /\ resp.id \notin DOMAIN users
        /\ \A id \in DOMAIN recipes : recipes[id].user_id # resp.id
        /\ \A f \in user_favorites : f[1] # resp.id
        /\ \A c \in DOMAIN collections : collections[c].user_id # resp.id
        /\ \A r \in recipe_reviews : r.user_id # resp.id

\* ========================================================= reading reviews
\* "Everyone can view reviews on public recipes": SELECT, USING EXISTS
\* (SELECT 1 FROM recipes WHERE recipes.id = recipe_reviews.recipe_id AND
\* recipes.is_public = true).  The subquery runs with the rights of p: it
\* finds the recipes that the SELECT policies of recipes show to p.
ReviewsOnPublicRecipesViewable(p, row) ==
    \E id \in SelectRecipes(p) : id = row.recipe_id /\ recipes[id].is_public

ReviewSelectUsing(p, row) ==
    \/ UsersManageOwnReviews(p, row.user_id)
    \/ ReviewsOnPublicRecipesViewable(p, row)

\* SELECT * FROM recipe_reviews, as p
SelectReviews(p) == {r \in recipe_reviews : ReviewSelectUsing(p, r)}

\* a read of the reviews of a recipe, as p: the authors of the reviews it
\* returns
selectReviews(p, recipe_id) ==
    /\ CanAct(p)
    /\ resp' = Response("selectReviews", p, recipe_id, "",
                        {r.user_id : r \in {s \in SelectReviews(p) : s.recipe_id = recipe_id}})
    /\ UNCHANGED <<authUsers, users, recipes, user_favorites, recipe_reviews, now, tx,
                     admin_actions, chat_conversations, collections, collection_recipes, recipe_nutrition, page>>

NextReviewRead ==
    \/ \E u \in UserIds : SignUp(u)
    \/ \E u \in UserIds, role \in SetRoles : InsertUser(u, u, role)
    \/ \E o \in UserIds, id \in RecipeIds, pub \in BOOLEAN : InsertRecipe(o, id, o, pub)
    \/ \E u \in UserIds, id \in RecipeIds : InsertReview(u, u, id, MaxRating)
    \/ \E u \in UserIds, id \in RecipeIds : handleDelete(u, id)
    \/ \E p \in Principals, id \in RecipeIds : selectReviews(p, id)

SpecReviewRead == Init /\ [][NextReviewRead]_vars

\* C17: a review is readable by a principal, the anonymous one included,
\* exactly when its recipe has is_public = true or the principal is the
\* author of the review.
C17_ReviewsFollowRecipeVisibility ==
    \A p \in Principals, r \in recipe_reviews :
        CanAct(p) =>
            (r \in SelectReviews(p)
                <=> (recipes[r.recipe_id].is_public \/ SqlEq(p, r.user_id)))

\* ======================================================= access to favorites
\* SELECT * FROM user_favorites, as p
SelectFavorites(p) == {f \in user_favorites : UsersManageOwnFavorites(p, f[1])}

\* a read of the favorites of user_id, as p: the recipes of the rows it
\* returns
selectFavorites(p, user_id) ==
    /\ CanAct(p)
    /\ resp' = Response("selectFavorites", p, user_id, "",
                        {f[2] : f \in {g \in SelectFavorites(p) : g[1] = user_id}})
    /\ UNCHANGED <<authUsers, users, recipes, user_favorites, recipe_reviews, now, tx,
                     admin_actions, chat_conversations, collections, collection_recipes, recipe_nutrition, page>>

\* the store once every identity has signed up and has its users row; at
\* most one of them has made itself an admin
InitRoles ==
    /\ authUsers = UserIds
    /\ \E admins \in {{}} \cup {{u} : u \in UserIds} :
            users = [u \in UserIds |-> [role |-> IF u \in admins THEN "admin" ELSE "user"]]
    /\ recipes = <<>>
    /\ user_favorites = {}
    /\ recipe_reviews = {}
    /\ now = 1
    /\ tx = [u \in UserIds |-> NoTx]
    /\ resp = Response("none", NULL, NULL, "", {})
    /\ admin_actions = {}
    /\ chat_conversations = <<>>
    /\ collections = <<>>
    /\ collection_recipes = {}
    /\ recipe_nutrition = {}
    /\ page = NoPage

NextFavAccess ==
    \/ \E o \in UserIds, id \in RecipeIds : InsertRecipe(o, id, o, TRUE)
    \/ \E p \in Principals, u \in UserIds, id \in RecipeIds : InsertFavorite(p, u, id)
    \/ \E p \in Principals, u \in UserIds, id \in RecipeIds : DeleteFavorite(p, u, id)
    \/ \E p \in Principals, u \in UserIds : selectFavorites(p, u)

SpecFavAccess == InitRoles /\ [][NextFavAccess]_vars

\* C18: a read, a create or a delete of a favorite is allowed only to the
\* principal whose id is the favorite's user_id: no principal, admin or not,
\* creates, sees or removes a favorite of another user, and the anonymous
\* principal does none of these.
C18_FavoritesAreOwn ==
    /\ [](/\ \A p \in Principals :
                /\ \A f \in SelectFavorites(p) : SqlEq(p, f[1])
                /\ \A u \in UserIds, id \in RecipeIds :
                      FavoriteInsertError(p, u, id) = "" => SqlEq(p, u)
          /\ resp.op = "selectFavorites" /\ resp.rows # {} => SqlEq(resp.by, resp.id))
    /\ [][\A f \in (user_favorites' \ user_favorites) \cup (user_favorites \ user_favorites') :
              SqlEq(resp'.by, f[1])]_vars

\* a signed-in principal asked for the delete of another user's favorite, and
\* the favorite is still there
C18_Witness ==
    /\ resp.op = "deleteFavorite"
    /\ resp.by # NULL
    /\ resp.rows = {}
    /\ \E f \in user_favorites : f[2] = resp.id /\ f[1] # resp.by

\* C19: a delete of a recipe through the application never removes the row:
\* after an allowed delete the row exists with is_deleted = true, deleted_at
\* the time of the deletion and deleted_by the id of the principal who
\* deleted it.
C19_SoftDeleteRecordsWhoAndWhen ==
    (resp.op = "handleDelete" /\ resp.rows # {}) =>
        /\ resp.id \in DOMAIN recipes
        /\ recipes[resp.id].is_deleted
        /\ recipes[resp.id].deleted_at = now
        /\ recipes[resp.id].deleted_by = resp.by

\* ========================================================= RecipeDetailPage
\* the times the effect of the page runs in a run
NumLoads == 2
\* the ids a route names: those of the recipes, and one of no recipe
PageIds == RecipeIds \cup {GhostId}

\* .from('recipes').select().eq('id', id).eq('is_deleted', false).single(),
\* as p: the row, or an error when there is not exactly one
RecipeQuery(p, id) ==
    LET rows == {i \in SelectRecipes(p) : i = id /\ recipes[i].is_deleted = FALSE}
    IN  IF Cardinality(rows) = 1 THEN [data |-> id, error |-> FALSE]
        ELSE [data |-> NULL, error |-> TRUE]

\* .from('recipe_nutrition').select('*').eq('recipe_id', id).single(): the
\* row, or null (recipe_nutrition has no row-level security)
NutritionQuery(id) == IF id \in recipe_nutrition THEN id ELSE NULL

\* useEffect(..., [params.id]): the route names id, and the effect calls
\* loadRecipe, which runs to its first await: setLoading(true), setError(''),
\* and the recipe query for the params.id of this render.  (loadCurrentUser,
\* called next, sets a state that no call of loadRecipe reads.)
useEffect(id) ==
    /\ id # page.params_id
    /\ Len(page.loads) < NumLoads
    /\ page' = [page EXCEPT !.params_id = id,
                            !.loading = TRUE,
                            !.error = "",
                            !.loads = Append(@, [id |-> id, pc |-> "recipe", data |-> NULL])]
    /\ UNCHANGED <<authUsers, users, recipes, user_favorites, recipe_reviews, now, tx, resp,
                     admin_actions, chat_conversations, collections, collection_recipes,
                     recipe_nutrition>>

\* the recipe query of call i answers: recipeError ends the call with
\* 'Recipe not found'; else the call goes on to await getCurrentUser
loadRecipe_recipe(i) ==
    LET load == page.loads[i]
        r == RecipeQuery(page.user, load.id)
    IN  /\ i \in DOMAIN page.loads
        /\ load.pc = "recipe"
        /\ page' = IF r.error
                   THEN [page EXCEPT !.error = "Recipe not found",
                                     !.loading = FALSE,
                                     !.loads[i].pc = "done"]
                   ELSE [page EXCEPT !.loads[i].pc = "user", !.loads[i].data = r.data]
        /\ UNCHANGED <<authUsers, users, recipes, user_favorites, recipe_reviews, now, tx, resp,
                         admin_actions, chat_conversations, collections, collection_recipes,
                         recipe_nutrition>>

\* getCurrentUser of call i answers: a private recipe of another user ends
\* the call with the access error; else setRecipe, and the nutrition query
\* for the params.id of the call's render
loadRecipe_user(i) ==
    LET load == page.loads[i]
        user == getCurrentUser(page.user)
        recipeData == recipes[load.data]
    IN  /\ i \in DOMAIN page.loads
        /\ load.pc = "user"
        /\ page' = IF ~recipeData.is_public /\ recipeData.user_id # user
                   THEN [page EXCEPT !.error = "You do not have access to this recipe",
                                     !.loading = FALSE,
                                     !.loads[i].pc = "done"]
                   ELSE [page EXCEPT !.recipe = load.data, !.loads[i].pc = "nutrition"]
        /\ UNCHANGED <<authUsers, users, recipes, user_favorites, recipe_reviews, now, tx, resp,
                         admin_actions, chat_conversations, collections, collection_recipes,
                         recipe_nutrition>>

\* the nutrition query of call i answers: setNutrition, setLoading(false)
loadRecipe_nutrition(i) ==
    LET load == page.loads[i]
    IN  /\ i \in DOMAIN page.loads
        /\ load.pc = "nutrition"
        /\ page' = [page EXCEPT !.nutrition = NutritionQuery(load.id),
                                !.loading = FALSE,
                                !.loads[i].pc = "done"]
        /\ UNCHANGED <<authUsers, users, recipes, user_favorites, recipe_reviews, now, tx, resp,
                         admin_actions, chat_conversations, collections, collection_recipes,
                         recipe_nutrition>>

\* the store the page reads: every identity has its users row, every recipe
\* exists, with any owner and visibility, and with a nutrition row or none;
\* the page is open in the browser of any principal
InitPage ==
    /\ authUsers = UserIds
    /\ users = [u \in UserIds |-> [role |-> "user"]]
    /\ now = 1
    /\ recipes \in [RecipeIds -> {NewRecipe(o, pub) : o \in UserIds, pub \in BOOLEAN}]
    /\ recipe_nutrition \in SUBSET RecipeIds
    /\ \E p \in Principals : page = [NoPage EXCEPT !.user = p]
    /\ user_favorites = {}
    /\ recipe_reviews = {}
    /\ tx = [u \in UserIds |-> NoTx]
    /\ resp = Response("none", NULL, NULL, "", {})
    /\ admin_actions = {}
    /\ chat_conversations = <<>>
    /\ collections = <<>>
    /\ collection_recipes = {}

NextPage ==
    \/ \E id \in PageIds : useEffect(id)
    \/ \E i \in 1..NumLoads : loadRecipe_recipe(i)
    \/ \E i \in 1..NumLoads : loadRecipe_user(i)
    \/ \E i \in 1..NumLoads : loadRecipe_nutrition(i)

SpecPage == InitPage /\ [][NextPage]_vars

\* C21: once every call of loadRecipe has completed, the page shows what the
\* latest params.id loads, whatever the order of the responses: the error of
\* that load, and when it has none the recipe and the nutrition of that id.
C21_LatestParamsWins ==
    (page.loads # <<>> /\ \A i \in DOMAIN page.loads : page.loads[i].pc = "done") =>
        LET r == LoadRecipeResult(page.user, page.params_id)
        IN  /\ page.loading = FALSE
            /\ page.error = r.error
            /\ r.error = "" => /\ page.recipe = page.params_id
                               /\ page.nutrition = NutritionQuery(page.params_id)

====
